---- MODULE Spec2Model ----
(***************************************************************************)
(* A state-machine model of dssim.c: the attribute bundle, the image       *)
(* constructors (row ingestion, channel pyramid, blur preprocessing), the   *)
(* destructive comparator and the destructors, together with the heap they  *)
(* allocate from.                                                           *)
(*                                                                          *)
(* Numbers.  A C float/double is modelled as an exact fraction [n, d] with  *)
(* d >= 0: d = 0 and n # 0 is an infinity, n = d = 0 is NaN.  Rounding is   *)
(* not modelled; the images the model builds are constant-valued planes     *)
(* (every sample the row producer writes is the same value, 0 or 1), for    *)
(* which every blur and every 2x2 average is exact.                         *)
(*                                                                          *)
(* Memory.  Every malloc/calloc result is a buffer id <<kind, image, ch, k>>*)
(* in the heap, with its length in elements, the (uniform) value of its     *)
(* elements and the number of times it was passed to free().  malloc(0) is  *)
(* taken to return a distinct zero-length buffer.                           *)
(*                                                                          *)
(* Accesses outside a buffer.  The offsets every blur reads and writes are  *)
(* computed from its loops and compared with the sizes of the plane and of  *)
(* the scratch; an image records whether its construction stayed inside     *)
(* them (in_bounds, two_rows).  What such an access does to memory is       *)
(* undefined and is not modelled: Spec follows only the executions whose    *)
(* constructions stay in bounds, SpecBuild reaches the others and stops at  *)
(* recording them.                                                          *)
(***************************************************************************)
EXTENDS Integers, Sequences, FiniteSets, TLC

MAX_CHANS == 3
MAX_SCALES == 5

\* Bounds of the model (not program constants).
MaxDim == 16        \* side of the largest image the model builds
MaxScalesArg == 6   \* largest `num` handed to dssim_set_scales

ImageIds == {"a", "b", "c"}
PairIds == {"a", "b"}
ImageSizes == {<<1, 1>>, <<4, 4>>, <<4, 5>>, <<MaxDim, MaxDim>>,
               <<MaxDim, MaxDim + 1>>}
ScaleArgs == {0, 1, 2, MaxScalesArg}
PixelValues == {0, 1}
ChannelArgs == {0, 1, 2, 3, 4}
ColorTypes == {"DSSIM_GRAY", "DSSIM_RGB", "DSSIM_RGBA", "DSSIM_RGBA_TO_GRAY",
               "DSSIM_LUMA", "DSSIM_LAB", "UNSUPPORTED"}

VARIABLES
    attr,     \* the dssim_attr bundle
    images,   \* the dssim_image of every image slot
    heap,     \* every buffer ever allocated
    cmp,      \* the activation of dssim_compare, idle between calls
    ret,      \* what the last constructor or dssim_compare call returned
    map_out   \* the caller's map pointer, one per modified image

vars == <<attr, images, heap, cmp, ret, map_out>>

MIN(a, b) == IF a <= b THEN a ELSE b
MAX(a, b) == IF a >= b THEN a ELSE b

-----------------------------------------------------------------------------
(* Floating point values as fractions.                                     *)

Abs(x) == IF x < 0 THEN -x ELSE x

RECURSIVE GCD(_, _)
GCD(a, b) == IF b = 0 THEN a ELSE GCD(b, a % b)

Sign(x) == IF x > 0 THEN 1 ELSE IF x < 0 THEN -1 ELSE 0

\* The canonical fraction n/d for d >= 0.
Frac(n, d) ==
    IF d = 0 THEN [n |-> Sign(n), d |-> 0]
    ELSE LET g == GCD(Abs(n), d) IN [n |-> n \div g, d |-> d \div g]

Num(k) == [n |-> k, d |-> 1]
NaN == [n |-> 0, d |-> 0]
Inf == [n |-> 1, d |-> 0]
IsNaN(x) == x.n = 0 /\ x.d = 0

FMul(x, y) ==
    IF x.d = 0 \/ y.d = 0 THEN Frac(x.n * y.n, 0)
    ELSE LET g1 == GCD(Abs(x.n), y.d)
             g2 == GCD(Abs(y.n), x.d)
             a == IF g1 = 0 THEN x.n ELSE x.n \div g1
             d == IF g1 = 0 THEN y.d ELSE y.d \div g1
             c == IF g2 = 0 THEN y.n ELSE y.n \div g2
             b == IF g2 = 0 THEN x.d ELSE x.d \div g2
         IN Frac(a * c, b * d)

FRecip(x) == IF x.n < 0 THEN [n |-> -x.d, d |-> -x.n] ELSE [n |-> x.d, d |-> x.n]

FDiv(x, y) == IF IsNaN(y) THEN NaN ELSE FMul(x, FRecip(y))

FAdd(x, y) ==
    IF IsNaN(x) \/ IsNaN(y) THEN NaN
    ELSE IF x.d = 0 /\ y.d = 0 THEN (IF x.n = y.n THEN x ELSE NaN)
    ELSE IF x.d = 0 THEN x
    ELSE IF y.d = 0 THEN y
    ELSE LET g == GCD(x.d, y.d)
             l == (x.d \div g) * y.d
         IN Frac(x.n * (l \div x.d) + y.n * (l \div y.d), l)

FNeg(x) == [n |-> -x.n, d |-> x.d]
FSub(x, y) == FAdd(x, FNeg(y))

-----------------------------------------------------------------------------
(* The heap.                                                               *)

NULL == <<"NULL", "-", 0, 0>>
UNSET == <<"UNSET", "-", 0, 0>>   \* a caller variable the library has not written

Malloc(h, id, len) == (id :> [len |-> len, data |-> NaN, frees |-> 0]) @@ h

\* free(p): free(NULL) does nothing.
Free(h, id) ==
    IF id = NULL THEN h
    ELSE [h EXCEPT ![id].frees = @ + 1, ![id].data = NaN]

Store(h, id, v) == IF id = NULL THEN h ELSE [h EXCEPT ![id].data = v]

Live(h) == {id \in DOMAIN h : h[id].frees = 0}

ATTR == <<"attr", "-", 0, 0>>
TmpId(size) == <<"tmp", "-", 0, size>>

-----------------------------------------------------------------------------
(* The attribute bundle.                                                   *)

default_weights ==
    <<Frac(448, 10000), Frac(2856, 10000), Frac(3001, 10000),
      Frac(2363, 10000), Frac(1333, 10000)>>

RECURSIVE SumWeights(_, _)
SumWeights(weights, k) ==
    IF k <= 0 THEN Num(0) ELSE FAdd(SumWeights(weights, k - 1), weights[k])

\* dssim_set_scales(attr, num, weights); weights = <<>> stands for NULL.
set_scales(a, num, weights) ==
    LET ns == MIN(MAX_SCALES, num)
        w == IF weights = <<>> THEN default_weights ELSE weights
        sum == SumWeights(w, ns)
    IN [a EXCEPT !.num_scales = ns,
                 !.scale_weights =
                     [i \in 1..MAX_SCALES |->
                         IF i <= ns THEN FDiv(w[i], sum) ELSE @[i]]]

create_attr ==
    set_scales([tmp |-> NULL, tmp_size |-> 0,
                color_weight |-> Frac(95, 100),
                scale_weights |-> [i \in 1..MAX_SCALES |-> Num(0)],
                num_scales |-> 0,
                detail_size |-> 1,
                subsample_chroma |-> TRUE,
                live |-> TRUE],
               4, <<>>)

SizeofFloat == 4

\* dssim_get_tmp(attr, size): the scratch grows on demand and is kept.
dssim_get_tmp(a, h, size) ==
    IF a.tmp # NULL /\ size <= a.tmp_size
    THEN [attr |-> a, heap |-> h]
    ELSE [attr |-> [a EXCEPT !.tmp = TmpId(size), !.tmp_size = size],
          heap |-> Malloc(Free(h, a.tmp), TmpId(size), size \div SizeofFloat)]

-----------------------------------------------------------------------------
(* The blur kernel: the element offsets each pass reads and writes, as     *)
(* pairs <<buffer, offset>>, and the values it computes.                    *)

\* end = (width-1) & ~3UL (converted back to int)
End(width) == IF width >= 1 THEN ((width - 1) \div 4) * 4 ELSE -4

\* row[MAX(0, i-1)] + row[i] + row[MIN(width-1, i+1)]
Tap(width, i) == {MAX(0, i - 1), i, MIN(width - 1, i + 1)}

\* the values of i in  for(; i < end; i+=4)  starting from i = 4
MidStarts(width) == {i \in 4..MAX(4, End(width)) : i % 4 = 0 /\ i < End(width)}

\* the value of i when the last loop  for(; i < width; i++)  starts
TailStart(width) == IF End(width) > 4 THEN End(width) ELSE 4

RowReads(width) ==
    UNION {Tap(width, i) : i \in 0..3}
    \cup UNION {(i - 1)..(i + 4) : i \in MidStarts(width)}
    \cup UNION {Tap(width, i) : i \in TailStart(width)..(width - 1)}

RowWrites(width) ==
    (0..3)
    \cup UNION {i..(i + 3) : i \in MidStarts(width)}
    \cup (TailStart(width)..(width - 1))

regular_1d_blur(src, tmp1, dst, width, height, runs, callback) ==
    UNION {UNION {
        LET row0 == IF run = 0 THEN <<src, j * width>>
                    ELSE IF run % 2 = 1 THEN <<tmp1, 0>> ELSE <<tmp1, width>>
            dstrow == IF run = runs - 1 THEN <<dst, j * width>>
                      ELSE IF run % 2 = 1 THEN <<tmp1, width>> ELSE <<tmp1, 0>>
            first == run = 0 /\ callback
            cbacc == IF first
                     THEN {<<row0[1], row0[2] + x>> : x \in 0..(width - 1)}
                          \cup {<<tmp1, width + x>> : x \in 0..(width - 1)}
                     ELSE {}
            row == IF first THEN <<tmp1, width>> ELSE row0
        IN cbacc
           \cup {<<row[1], row[2] + x>> : x \in RowReads(width)}
           \cup {<<dstrow[1], dstrow[2] + x>> : x \in RowWrites(width)}
        : run \in 0..(runs - 1)} : j \in 0..(height - 1)}

\* the rows the four-row blocks of transpose start at, and the rows left over
BlockRows(height) == {j \in 0..MAX(0, height - 5) : j % 4 = 0 /\ j < height - 4}
RestStart(height) == IF height - 4 <= 0 THEN 0 ELSE ((height - 4 + 3) \div 4) * 4

transpose(src, dst, width, height) ==
    UNION {{<<src, (j + r) * width + i>> : i \in 0..(width - 1), r \in 0..3}
           \cup {<<dst, i * height + j + r>> : i \in 0..(width - 1), r \in 0..3}
           : j \in BlockRows(height)}
    \cup UNION {{<<src, j * width + i>> : i \in 0..(width - 1)}
                \cup {<<dst, i * height + j>> : i \in 0..(width - 1)}
                : j \in RestStart(height)..(height - 1)}

\* blur(src, tmp, dst, width, height, size, callback)
blur(width, height, size, callback) ==
    regular_1d_blur("src", "tmp", "dst", width, height, size, callback)
    \cup transpose("dst", "tmp", width, height)
    \cup regular_1d_blur("tmp", "dst", "tmp", height, width, size, FALSE)
    \cup transpose("tmp", "dst", height, width)

\* The offsets one blur touches in the planes it is given (src and dst have
\* width * height elements each) and in the scratch, for every shape and
\* pass count the model uses; computed once.
BlurSizes == {2, 4}

RECURSIVE Pow2(_)
Pow2(k) == IF k <= 0 THEN 1 ELSE 2 * Pow2(k - 1)

\* the widths and heights of the levels of the images the model builds
Dims == {d \div Pow2(k) : d \in UNION {{sz[1], sz[2]} : sz \in ImageSizes},
                          k \in 0..MAX_SCALES}

BlurFootprint ==
    [p \in Dims \X Dims \X BlurSizes \X BOOLEAN |->
        LET acc == blur(p[1], p[2], p[3], p[4])
        IN [plane |-> {a[2] : a \in {b \in acc : b[1] # "tmp"}},
            tmp |-> {a[2] : a \in {b \in acc : b[1] = "tmp"}}]] @@ <<>>

\* every access of one blur of a width x height plane lies inside its buffer
BlurInBounds(width, height, size, callback, tmp_cap) ==
    LET fp == BlurFootprint[<<width, height, size, callback>>]
    IN /\ \A o \in fp.plane : 0 <= o /\ o < width * height
       /\ \A o \in fp.tmp : 0 <= o /\ o < tmp_cap

\* the scratch of each of the two 1D passes holds two rows of the pass's width:
\* tmp for the first pass, the destination plane for the second
BlurScratchTwoRows(width, height, tmp_cap) ==
    /\ tmp_cap >= 2 * width
    /\ width * height >= 2 * height

\* (a + b + c) / 3.f of three equal samples
Mean3(v) == FDiv(FAdd(FAdd(v, v), v), Num(3))

RECURSIVE BlurRuns(_, _)
BlurRuns(v, runs) == IF runs <= 0 THEN v ELSE BlurRuns(Mean3(v), runs - 1)

\* the value of every sample of blur(constant plane v)
BlurValue(v, size, callback) ==
    BlurRuns(BlurRuns(IF callback THEN FMul(v, v) ELSE v, size), size)

\* 0.25 * (a + b + c + d) of four equal samples
Mean4(v) == FMul(Frac(1, 4), FAdd(FAdd(v, v), FAdd(v, v)))

-----------------------------------------------------------------------------
(* Channels and images.                                                    *)

ChanId(i, ch, k) == <<"chan", i, ch, k>>
ImgId(i, ch, k) == <<"img", i, ch, k>>
MuId(i, ch, k) == <<"mu", i, ch, k>>
SqId(i, ch, k) == <<"img_sq_blur", i, ch, k>>
RowId(i, ch) == <<"row_tmp", i, ch, 0>>
ImageId(i) == <<"image", i, 0, 0>>

\* create_chan: channel ch (0-based) of image i at scale k.  The record of
\* the channel and its img plane are allocated; next_half of a level is the
\* next level of the channel's sequence.
create_chan(h, i, ch, k, width, height, blur_size, is_chroma) ==
    [chan |-> [width |-> width, height |-> height,
               blur_size |-> blur_size, is_chroma |-> is_chroma,
               self |-> ChanId(i, ch, k),
               img |-> ImgId(i, ch, k), mu |-> NULL, img_sq_blur |-> NULL],
     heap |-> Malloc(Malloc(h, ChanId(i, ch, k), 1),
                     ImgId(i, ch, k), width * height)]

\* subsampled_copy with dest_y_offset left out of the destination row
subsampled_copy_without_offset(new_width, dest_y_offset, rows, src_width) ==
    {[dst |-> x + y * new_width,
      src |-> {x * 2 + y * 2 * src_width, x * 2 + 1 + y * 2 * src_width,
               x * 2 + (y * 2 + 1) * src_width,
               x * 2 + 1 + (y * 2 + 1) * src_width}]
        : x \in 0..(new_width - 1), y \in 0..(rows - 1)}

\* subsampled_copy(new_chan, dest_y_offset, rows, src_img, src_width): the
\* writes, each with the destination offset and the four source offsets.
subsampled_copy(new_width, dest_y_offset, rows, src_width) ==
    {[dst |-> x + (y + dest_y_offset) * new_width,
      src |-> {x * 2 + y * 2 * src_width, x * 2 + 1 + y * 2 * src_width,
               x * 2 + (y * 2 + 1) * src_width,
               x * 2 + 1 + (y * 2 + 1) * src_width}]
        : x \in 0..(new_width - 1), y \in 0..(rows - 1)}

\* convert_image: drives the row callback over the luma rows.  calls is the
\* sequence of callback invocations (row index, width, and for each channel
\* the number of elements from the pointer handed over to the end of its
\* buffer); writes[ch] is the sequence of chroma samples written by
\* subsampled_copy, each with the callback rows and columns it averages.
convert_image(h, i, chans, channels, v, subsample_chroma) ==
    LET width == chans[1].width
        height == chans[1].height
        sub == subsample_chroma /\ channels > 1
        rows == IF sub
                THEN {RowId(i, ch) : ch \in 1..(channels - 1)}
                ELSE {}
        cap(ch, y) ==
            IF ch = 0 \/ ~sub
            THEN chans[ch + 1].width * chans[ch + 1].height - width * y
            ELSE IF y % 2 = 1 THEN width * 2 - width ELSE width * 2
        calls == [n \in 1..height |->
                    [y |-> n - 1, width |-> width,
                     cap |-> [c \in 1..channels |-> cap(c - 1, n - 1)]]]
        \* on an odd row y, row_tmp[ch] holds callback row y-1 in its first
        \* half and callback row y in its second half
        copies(ch, y) ==
            {[off |-> w.dst,
              from |-> {<<IF o >= width THEN y ELSE y - 1, o % width>> : o \in w.src}]
                : w \in subsampled_copy(chans[ch + 1].width, y \div 2, 1, width)}
        writes == [c \in 1..channels |->
                     IF sub /\ c > 1
                     THEN UNION {{[y |-> y, off |-> w.off, from |-> w.from]
                                    : w \in copies(c - 1, y)}
                                 : y \in {r \in 0..(height - 1) : r % 2 = 1}}
                     ELSE {}]
        h1 == [id \in DOMAIN h \cup rows |->
                 IF id \in rows
                 THEN [len |-> width * 2, data |-> NaN, frees |-> 1]
                 ELSE h[id]]
        \* luma rows are written in place; chroma is the callback's value
        \* (full resolution) or the mean of its 2x2 blocks (subsampled)
        h2 == [id \in DOMAIN h1 |->
                 IF \E c \in 1..channels : id = chans[c].img
                 THEN [h1[id] EXCEPT !.data =
                         IF sub /\ id # chans[1].img THEN Mean4(Num(v)) ELSE Num(v)]
                 ELSE h1[id]]
    IN [heap |-> h2, calls |-> calls, writes |-> writes,
        width |-> width, height |-> height, v |-> v, subsampled |-> sub]

\* the planes of one level once its blurs have run: img (blurred in place
\* for chroma) holds v, mu = blur(img), img_sq_blur = blur(img^2)
FillLevel(h, i, ch, k, chan, v) ==
    Store(Store(Malloc(Malloc(Store(h, chan.img, v),
                              MuId(i, ch, k), chan.width * chan.height),
                       SqId(i, ch, k), chan.width * chan.height),
                MuId(i, ch, k), BlurValue(v, chan.blur_size, FALSE)),
          SqId(i, ch, k), BlurValue(v, chan.blur_size, TRUE))

\* the part of dssim_preprocess_channel after the recursion into next_half
PreprocessLevel(rest, i, ch, k, chan, tmp_cap) ==
    [levels |-> <<[chan EXCEPT !.mu = MuId(i, ch, k),
                               !.img_sq_blur = SqId(i, ch, k)]>> \o rest.levels,
     heap |-> FillLevel(rest.heap, i, ch, k, chan,
                        IF chan.is_chroma
                        THEN BlurValue(rest.heap[chan.img].data, 2, FALSE)
                        ELSE rest.heap[chan.img].data),
     in_bounds |->
         /\ rest.in_bounds
         /\ chan.is_chroma => BlurInBounds(chan.width, chan.height, 2, FALSE, tmp_cap)
         /\ BlurInBounds(chan.width, chan.height, chan.blur_size, FALSE, tmp_cap)
         /\ BlurInBounds(chan.width, chan.height, chan.blur_size, TRUE, tmp_cap),
     two_rows |-> /\ rest.two_rows
                  /\ BlurScratchTwoRows(chan.width, chan.height, tmp_cap)]

\* the new half-size channel with its img filled by subsampled_copy
NextHalf(c, v) == [chan |-> c.chan, heap |-> Store(c.heap, c.chan.img, Mean4(v))]

\* dssim_preprocess_channel: the levels of the channel from this one down,
\* with the heap after their planes are allocated and filled.
RECURSIVE dssim_preprocess_channel(_, _, _, _, _, _)
dssim_preprocess_channel(c, i, ch, k, tmp_cap, num_scales) ==
    PreprocessLevel(
        IF num_scales > 1
        THEN dssim_preprocess_channel(
                 NextHalf(create_chan(c.heap, i, ch, k + 1,
                                      c.chan.width \div 2, c.chan.height \div 2,
                                      c.chan.blur_size, c.chan.is_chroma),
                          c.heap[c.chan.img].data),
                 i, ch, k + 1, tmp_cap, num_scales - 1)
        ELSE [levels |-> <<>>, heap |-> c.heap, in_bounds |-> TRUE, two_rows |-> TRUE],
        i, ch, k, c.chan, tmp_cap)

\* the results of the channels ch.. joined to that of the channels before
JoinChannels(p, q) ==
    [chan |-> <<p.levels>> \o q.chan, heap |-> q.heap,
     in_bounds |-> p.in_bounds /\ q.in_bounds,
     two_rows |-> p.two_rows /\ q.two_rows]

RECURSIVE PreprocessFrom(_, _, _, _, _, _)
PreprocessRest(p, i, chans, ch, tmp_cap, num_scales) ==
    JoinChannels(p, PreprocessFrom(p.heap, i, chans, ch, tmp_cap, num_scales))

\* for (ch = 0; ch < img->channels; ch++) dssim_preprocess_channel(...)
PreprocessFrom(h, i, chans, ch, tmp_cap, num_scales) ==
    IF ch >= Len(chans)
    THEN [chan |-> <<>>, heap |-> h, in_bounds |-> TRUE, two_rows |-> TRUE]
    ELSE PreprocessRest(
             dssim_preprocess_channel([chan |-> chans[ch + 1], heap |-> h],
                                      i, ch, 0, tmp_cap, num_scales),
             i, chans, ch + 1, tmp_cap, num_scales)

CreateChan0(h, i, ch, width, height, a) ==
    create_chan(h, i, ch, 0,
                IF a.subsample_chroma /\ ch > 0 THEN width \div 2 ELSE width,
                IF a.subsample_chroma /\ ch > 0 THEN height \div 2 ELSE height,
                (IF ch > 0 THEN 2 ELSE 1) * (a.detail_size + 1),
                ch > 0)

RECURSIVE CreateChans(_, _, _, _, _, _, _)
CreateRest(c, i, ch, channels, width, height, a) ==
    [chans |-> <<c.chan>> \o CreateChans(c.heap, i, ch, channels, width, height, a).chans,
     heap |-> CreateChans(c.heap, i, ch, channels, width, height, a).heap]

\* for (ch = 0; ch < img->channels; ch++) img->chan[ch] = create_chan(...)
CreateChans(h, i, ch, channels, width, height, a) ==
    IF ch >= channels THEN [chans |-> <<>>, heap |-> h]
    ELSE CreateRest(CreateChan0(h, i, ch, width, height, a),
                    i, ch + 1, channels, width, height, a)

Unbuilt == [state |-> "unbuilt", channels |-> 0, chan |-> <<>>,
            calls |-> <<>>, writes |-> <<>>,
            in_bounds |-> TRUE, two_rows |-> TRUE,
            width |-> 0, height |-> 0, v |-> 0, subsampled |-> FALSE,
            consumed |-> FALSE, visited |-> {}]

\* The image record.  Beside the fields of dssim_image (channels, chan) it
\* keeps what the construction did (calls, writes, in_bounds, two_rows), the
\* arguments it was built from (width, height, v, subsampled) and what
\* dssim_compare did to it as the modified image (consumed, visited).
Built(num_channels, cv, t, pp) ==
    [attr |-> t.attr, heap |-> pp.heap,
     image |-> [state |-> "live", channels |-> num_channels, chan |-> pp.chan,
                calls |-> cv.calls, writes |-> cv.writes,
                in_bounds |-> pp.in_bounds, two_rows |-> pp.two_rows,
                width |-> cv.width, height |-> cv.height, v |-> cv.v,
                subsampled |-> cv.subsampled,
                consumed |-> FALSE, visited |-> {}]]

Preprocessed(a, i, num_channels, cc, cv, t) ==
    Built(num_channels, cv, t,
          PreprocessFrom(t.heap, i, cc.chans, 0,
                         t.attr.tmp_size \div SizeofFloat, a.num_scales))

Converted(a, i, num_channels, width, height, cc, cv) ==
    Preprocessed(a, i, num_channels, cc, cv,
                 dssim_get_tmp(a, cv.heap, width * height * SizeofFloat))

Allocated(a, i, num_channels, width, height, v, cc) ==
    Converted(a, i, num_channels, width, height, cc,
              convert_image(cc.heap, i, cc.chans, num_channels, v, a.subsample_chroma))

\* dssim_create_image_float_callback, past its argument check: the new
\* attribute bundle, heap and image.
BuildImage(a, h, i, num_channels, width, height, v) ==
    Allocated(a, i, num_channels, width, height, v,
              CreateChans(Malloc(h, ImageId(i), 1), i, 0, num_channels, width, height, a))

Idle == cmp.pc = "idle"

\* the last call that returns a value: which, with which argument, and what
NoReturn == [op |-> "none", num_channels |-> 0, color_type |-> "-",
             status |-> "none", value |-> Num(0),
             original |-> "-", modified |-> "-", map |-> FALSE]

\* the argument check as a range check, which lets two channels through
ChannelsAccepted_as_range(num_channels) ==
    num_channels >= 1 /\ num_channels <= MAX_CHANS

\* if (num_channels != 1 && num_channels != MAX_CHANS) return NULL;
ChannelsAccepted(num_channels) == num_channels = 1 \/ num_channels = MAX_CHANS

create_image_float_callback(call, i, num_channels, width, height, v) ==
    IF ~ChannelsAccepted(num_channels)
    THEN /\ ret' = [call EXCEPT !.status = "NULL"]
         /\ UNCHANGED <<attr, images, heap>>
    ELSE LET b == BuildImage(attr, heap, i, num_channels, width, height, v)
         IN /\ attr' = b.attr
            /\ heap' = b.heap
            /\ images' = [images EXCEPT ![i] = b.image]
            /\ ret' = [call EXCEPT !.status = "image"]

dssim_create_image_float_callback(i, num_channels, width, height, v) ==
    /\ Idle /\ attr.live /\ images[i].state = "unbuilt"
    /\ create_image_float_callback(
           [NoReturn EXCEPT !.op = "dssim_create_image_float_callback",
                            !.num_channels = num_channels],
           i, num_channels, width, height, v)
    /\ UNCHANGED <<cmp, map_out>>

\* the switch of dssim_create_image: the channel count of a colour type,
\* 0 for the default case
ColorTypeChannels(color_type) ==
    CASE color_type = "DSSIM_GRAY" -> 1
      [] color_type = "DSSIM_RGB" -> 3
      [] color_type = "DSSIM_RGBA" -> 3
      [] color_type = "DSSIM_RGBA_TO_GRAY" -> 1
      [] color_type = "DSSIM_LUMA" -> 1
      [] color_type = "DSSIM_LAB" -> 3
      [] OTHER -> 0

dssim_create_image(i, color_type, width, height, v) ==
    /\ Idle /\ attr.live /\ images[i].state = "unbuilt"
    /\ IF ColorTypeChannels(color_type) = 0
       THEN /\ ret' = [NoReturn EXCEPT !.op = "dssim_create_image",
                                       !.color_type = color_type,
                                       !.status = "NULL"]
            /\ UNCHANGED <<attr, images, heap>>
       ELSE create_image_float_callback(
                [NoReturn EXCEPT !.op = "dssim_create_image",
                                 !.color_type = color_type],
                i, ColorTypeChannels(color_type), width, height, v)
    /\ UNCHANGED <<cmp, map_out>>

\* dealloc_chan on every level of every channel, then the image record
RECURSIVE FreeAll(_, _)
FreeAll(h, ids) ==
    IF ids = <<>> THEN h ELSE FreeAll(Free(h, Head(ids)), Tail(ids))

RECURSIVE dealloc_chan(_, _, _)
dealloc_chan(h, levels, k) ==
    IF k > Len(levels) THEN h
    ELSE LET chan == levels[k]
             h1 == FreeAll(h, <<chan.img, chan.mu, chan.img_sq_blur>>)
             h2 == dealloc_chan(h1, levels, k + 1)
         IN Free(h2, chan.self)

RECURSIVE DeallocChans(_, _, _)
DeallocChans(h, chan, ch) ==
    IF ch > Len(chan) THEN h
    ELSE DeallocChans(dealloc_chan(h, chan[ch], 1), chan, ch + 1)

dssim_dealloc_image(i) ==
    /\ Idle /\ images[i].state = "live"
    /\ heap' = Free(DeallocChans(heap, images[i].chan, 1), ImageId(i))
    /\ images' = [images EXCEPT ![i] = [Unbuilt EXCEPT !.state = "freed"]]
    /\ UNCHANGED <<attr, cmp, ret, map_out>>

dssim_dealloc_attr ==
    /\ Idle /\ attr.live
    /\ heap' = Free(Free(heap, attr.tmp), ATTR)
    /\ attr' = [attr EXCEPT !.live = FALSE]
    /\ UNCHANGED <<images, cmp, ret, map_out>>


dssim_set_scales(num) ==
    /\ Idle /\ attr.live
    /\ attr' = set_scales(attr, num, <<>>)
    /\ UNCHANGED <<images, heap, cmp, ret, map_out>>

dssim_set_color_handling(subsample_chroma, color_weight) ==
    /\ Idle /\ attr.live
    /\ attr' = [attr EXCEPT !.subsample_chroma = subsample_chroma,
                            !.color_weight = color_weight]
    /\ UNCHANGED <<images, heap, cmp, ret, map_out>>

-----------------------------------------------------------------------------
(* The comparator.  dssim_compare runs as a sequence of steps, one call of  *)
(* dssim_compare_channel being two of them (get_img1_img2_blur, then the    *)
(* SSIM loop and the releases); nothing else runs until it returns.         *)

CmpIdle == [pc |-> "idle", original |-> "-", modified |-> "-", channels |-> 0,
            ch |-> 0, n |-> 0, ssim_sum |-> Num(0), total |-> Num(0),
            map |-> FALSE, product |-> NULL]

\* the level dssim_compare's pointer is at: scale n of channel ch
Level(i, ch, n) == images[i].chan[ch + 1][n + 1]

HasNextHalf(i, ch, n) == n + 2 <= Len(images[i].chan[ch + 1])

\* the top of the channel loop: the first (channel, scale) the loops reach
\* from channel ch on, or the return
EnterChannel(c, ch) ==
    IF ch < c.channels /\ 0 < attr.num_scales
    THEN [c EXCEPT !.pc = "compare_channel", !.ch = ch, !.n = 0]
    ELSE [c EXCEPT !.pc = "return"]

\* the end of the scale loop's body with the loop condition
\* n < attr->num_scales left out
AfterScale_ignoring_num_scales(c) ==
    IF /\ HasNextHalf(c.original, c.ch, c.n)
       /\ HasNextHalf(c.modified, c.ch, c.n)
    THEN [c EXCEPT !.pc = "compare_channel", !.n = c.n + 1]
    ELSE EnterChannel(c, c.ch + 1)

\* the end of the scale loop's body: both pointers move to next_half
AfterScale(c) ==
    IF /\ HasNextHalf(c.original, c.ch, c.n)
       /\ HasNextHalf(c.modified, c.ch, c.n)
       /\ c.n + 1 < attr.num_scales
    THEN [c EXCEPT !.pc = "compare_channel", !.n = c.n + 1]
    ELSE EnterChannel(c, c.ch + 1)

Weight(c) ==
    FMul(IF Level(c.original, c.ch, c.n).is_chroma THEN attr.color_weight ELSE Num(1),
         attr.scale_weights[c.n + 1])

\* Accumulate with  total += weight  left out
Accumulate_without_total(c, value) ==
    [c EXCEPT !.ssim_sum = FAdd(@, FMul(Weight(c), value))]

\* ssim_sum += weight * dssim_compare_channel(...); total += weight;
Accumulate(c, value) ==
    [c EXCEPT !.ssim_sum = FAdd(@, FMul(Weight(c), value)),
              !.total = FAdd(@, Weight(c))]

dssim_compare(o, m, want_map) ==
    /\ Idle /\ attr.live
    /\ o # m
    /\ images[o].state = "live" /\ images[m].state = "live"
    /\ ~images[o].consumed /\ ~images[m].consumed
    /\ LET top == images[o].chan[1][1]
           t == dssim_get_tmp(attr, heap, top.width * top.height * SizeofFloat)
       IN /\ attr' = t.attr
          /\ heap' = t.heap
          /\ cmp' = EnterChannel([CmpIdle EXCEPT
                        !.original = o, !.modified = m, !.map = want_map,
                        !.channels = MIN(images[o].channels, images[m].channels)], 0)
    /\ images' = [images EXCEPT ![m].consumed = TRUE]
    /\ map_out' = IF want_map THEN [map_out EXCEPT ![m] = UNSET] ELSE map_out
    /\ UNCHANGED ret

\* the dimension check without the comparison of the heights
Mismatch_width_only(original, modified) == original.width # modified.width

\* a (channel, scale) dssim_compare_channel was called on, and whether it
\* went past its dimension check
Visit(ch, n, match) == [ch |-> ch, n |-> n, match |-> match]

Mismatch(original, modified) ==
    original.width # modified.width \/ original.height # modified.height

\* dssim_compare_channel returning 0 on its dimension check
compare_channel_mismatch ==
    /\ cmp.pc = "compare_channel"
    /\ Mismatch(Level(cmp.original, cmp.ch, cmp.n), Level(cmp.modified, cmp.ch, cmp.n))
    /\ cmp' = AfterScale(Accumulate(cmp, Num(0)))
    /\ images' = [images EXCEPT ![cmp.modified].visited =
                                   @ \cup {Visit(cmp.ch, cmp.n, FALSE)}]
    /\ UNCHANGED <<attr, heap, ret, map_out>>

\* get_img1_img2_blur with  modified->img = NULL  left out
AbsorbedLevel_keeping_img(chan) == chan

\* float *img2 = modified->img; modified->img = NULL;
AbsorbedLevel(chan) == [chan EXCEPT !.img = NULL]

\* get_img1_img2_blur: img2 becomes blur(img1 * img2) and leaves the channel
get_img1_img2_blur ==
    /\ cmp.pc = "compare_channel"
    /\ LET original == Level(cmp.original, cmp.ch, cmp.n)
           modified == Level(cmp.modified, cmp.ch, cmp.n)
       IN /\ ~Mismatch(original, modified)
          /\ heap' = Store(heap, modified.img,
                           BlurRuns(BlurRuns(FMul(heap[modified.img].data,
                                                  heap[original.img].data),
                                             original.blur_size),
                                    original.blur_size))
          /\ cmp' = [cmp EXCEPT !.pc = "ssim", !.product = modified.img]
    /\ images' = [images EXCEPT
                    ![cmp.modified].chan[cmp.ch + 1][cmp.n + 1] = AbsorbedLevel(@),
                    ![cmp.modified].visited = @ \cup {Visit(cmp.ch, cmp.n, TRUE)}]
    /\ UNCHANGED <<attr, ret, map_out>>

c1 == Frac(1, 10000)
c2 == Frac(9, 10000)

\* the SSIM of one pixel from the five statistics at its offset
PixelSSIM(mu1, mu2, img1_sq_blur, img2_sq_blur, img1_img2_blur) ==
    LET mu1_sq == FMul(mu1, mu1)
        mu2_sq == FMul(mu2, mu2)
        mu1_mu2 == FMul(mu1, mu2)
        sigma1_sq == FSub(img1_sq_blur, mu1_sq)
        sigma2_sq == FSub(img2_sq_blur, mu2_sq)
        sigma12 == FSub(img1_img2_blur, mu1_mu2)
    IN FDiv(FMul(FAdd(FMul(Num(2), mu1_mu2), c1), FAdd(FMul(Num(2), sigma12), c2)),
            FMul(FAdd(FAdd(mu1_sq, mu2_sq), c1),
                 FAdd(FAdd(sigma1_sq, sigma2_sq), c2)))

\* the sum of the per-pixel SSIM over the offsets 0 .. count-1 of planes
\* whose samples are all alike
SumSSIM(ssim, count) == IF count <= 0 THEN Num(0) ELSE FMul(Num(count), ssim)

\* const bool use_ssim_map_out = ssim_map_out && n == 0 && ch == 0;
UseSsimMapOut(c) == c.map /\ c.n = 0 /\ c.ch = 0

\* the releases with  modified->mu = NULL  left out
ReleasedLevel_keeping_mu(chan) == [chan EXCEPT !.img_sq_blur = NULL]

\* modified->mu = NULL; ... modified->img_sq_blur = NULL;
ReleasedLevel(chan) == [chan EXCEPT !.mu = NULL, !.img_sq_blur = NULL]

\* the rest of dssim_compare_channel: the SSIM loop, the map, the releases
compare_channel_ssim ==
    /\ cmp.pc = "ssim"
    /\ LET original == Level(cmp.original, cmp.ch, cmp.n)
           modified == Level(cmp.modified, cmp.ch, cmp.n)
           width == original.width
           height == original.height
           ssim == PixelSSIM(heap[original.mu].data, heap[modified.mu].data,
                             heap[original.img_sq_blur].data,
                             heap[modified.img_sq_blur].data,
                             heap[cmp.product].data)
           ssim_sum == SumSSIM(ssim, width * height)
           use_ssim_map_out == UseSsimMapOut(cmp)
           h1 == IF use_ssim_map_out
                 THEN (IF width * height > 0 THEN Store(heap, modified.mu, ssim) ELSE heap)
                 ELSE Free(heap, modified.mu)
       IN /\ heap' = Free(Free(h1, modified.img_sq_blur), cmp.product)
          /\ map_out' = IF use_ssim_map_out
                        THEN [map_out EXCEPT ![cmp.modified] = modified.mu]
                        ELSE map_out
          /\ cmp' = AfterScale([Accumulate(cmp, FDiv(ssim_sum, Num(width * height)))
                                   EXCEPT !.product = NULL])
    /\ images' = [images EXCEPT
                    ![cmp.modified].chan[cmp.ch + 1][cmp.n + 1] = ReleasedLevel(@)]
    /\ UNCHANGED <<attr, ret>>

\* return 1.0 / (ssim_sum / total) - 1.0
DSSIM(ssim_sum, total) == FSub(FDiv(Num(1), FDiv(ssim_sum, total)), Num(1))

compare_return ==
    /\ cmp.pc = "return"
    /\ ret' = [NoReturn EXCEPT !.op = "dssim_compare", !.status = "value",
                                !.value = DSSIM(cmp.ssim_sum, cmp.total),
                                !.original = cmp.original,
                                !.modified = cmp.modified,
                                !.map = cmp.map]
    /\ cmp' = CmpIdle
    /\ UNCHANGED <<attr, images, heap, map_out>>

-----------------------------------------------------------------------------
(* Specifications.                                                         *)

Init ==
    /\ attr = create_attr
    /\ heap = Malloc(<<>>, ATTR, 1)
    /\ images = [i \in ImageIds |-> Unbuilt]
    /\ cmp = CmpIdle
    /\ ret = NoReturn
    /\ map_out = [i \in ImageIds |-> UNSET]

\* The comparator's specification: two images of the same or of different
\* shapes, the scales reconfigured at any time, one comparison, the releases.
\* It follows the executions whose constructions keep every blur access
\* inside its buffers; SpecBuild below covers the others.
CompareSizes == ImageSizes \ {<<1, 1>>}
CompareScaleArgs == {0, 1, 2}

\* the construction of image i that the step performs stayed in bounds
ConstructedInBounds(i) == images'[i].in_bounds /\ images'[i].two_rows

Next ==
    \/ \E num \in CompareScaleArgs : dssim_set_scales(num)
    \/ \E i \in PairIds, nc \in {1, 3}, sz \in CompareSizes, v \in PixelValues :
           /\ dssim_create_image_float_callback(i, nc, sz[1], sz[2], v)
           /\ ConstructedInBounds(i)
    \/ \E o, m \in PairIds, want_map \in BOOLEAN : dssim_compare(o, m, want_map)
    \/ compare_channel_mismatch
    \/ get_img1_img2_blur
    \/ compare_channel_ssim
    \/ compare_return
    \/ \E i \in PairIds : dssim_dealloc_image(i)
    \/ dssim_dealloc_attr

Spec == Init /\ [][Next]_vars

\* One original against several modified images: image "a" is the original
\* of every comparison, the others are compared with it one after the other.
SequenceSizes == {<<MaxDim, MaxDim>>, <<MaxDim, MaxDim + 1>>}
SequenceScaleArgs == {1, 2}

NextSequence ==
    \/ \E num \in SequenceScaleArgs : dssim_set_scales(num)
    \/ \E i \in ImageIds, sz \in SequenceSizes, v \in PixelValues :
           /\ dssim_create_image_float_callback(i, 1, sz[1], sz[2], v)
           /\ ConstructedInBounds(i)
    \/ \E m \in ImageIds, want_map \in BOOLEAN : dssim_compare("a", m, want_map)
    \/ compare_channel_mismatch
    \/ get_img1_img2_blur
    \/ compare_channel_ssim
    \/ compare_return
    \/ \E i \in ImageIds \ {"a"} : dssim_dealloc_image(i)

SpecSequence == Init /\ [][NextSequence]_vars

\* The constructors' specification: one image slot, every configuration of
\* the bundle, both constructors with accepted and rejected arguments.
NextBuild ==
    \/ \E num \in ScaleArgs : dssim_set_scales(num)
    \/ \E s \in BOOLEAN : dssim_set_color_handling(s, Frac(95, 100))
    \/ \E nc \in ChannelArgs, sz \in ImageSizes, v \in PixelValues :
           dssim_create_image_float_callback("a", nc, sz[1], sz[2], v)
    \/ \E ct \in ColorTypes, sz \in ImageSizes, v \in PixelValues :
           dssim_create_image("a", ct, sz[1], sz[2], v)
    \/ dssim_dealloc_image("a")
    \/ dssim_dealloc_attr

SpecBuild == Init /\ [][NextBuild]_vars

-----------------------------------------------------------------------------
(* The claims.                                                             *)

\* dssim_compare has returned and both of its images are still there
Returned ==
    /\ Idle
    /\ ret.op = "dssim_compare"
    /\ images[ret.original].state = "live"
    /\ images[ret.modified].state = "live"

SameSource(o, m) ==
    /\ images[o].width = images[m].width
    /\ images[o].height = images[m].height
    /\ images[o].channels = images[m].channels
    /\ images[o].subsampled = images[m].subsampled
    /\ images[o].v = images[m].v

\* C1: two images built from the same pixel data (same width, height,
\* channels and samples) compare to 0, whatever the attribute bundle holds.
C1_Identity ==
    (Returned /\ SameSource(ret.original, ret.modified)) => ret.value = Num(0)

\* identical images compared with no scale to visit: 0 / 0
C1_Witness ==
    /\ Returned
    /\ SameSource(ret.original, ret.modified)
    /\ images[ret.original].in_bounds /\ images[ret.modified].in_bounds
    /\ images[ret.modified].visited = {}
    /\ IsNaN(ret.value)

AllReleased ==
    /\ Idle
    /\ ~attr.live
    /\ \A i \in ImageIds : images[i].state # "live"

\* the planes handed to the caller as maps
HandedOut == {map_out[m] : m \in ImageIds} \ {UNSET}

\* C3, as stated: once every image and the bundle are released, every
\* buffer that was allocated has been released exactly once.
C3_EveryBufferReleasedOnce ==
    AllReleased => \A id \in DOMAIN heap : heap[id].frees = 1

\* C3, amended: no buffer is ever released twice, and once every image and
\* the bundle are released every buffer has been released exactly once,
\* except the mu plane handed to the caller as the map, which the library
\* never releases.
C3_ReleasedOnceExceptMap ==
    /\ \A id \in DOMAIN heap : heap[id].frees <= 1
    /\ AllReleased =>
           \A id \in DOMAIN heap :
               heap[id].frees = IF id \in HandedOut THEN 0 ELSE 1

C3_Witness ==
    /\ AllReleased
    /\ ret.op = "dssim_compare"
    /\ HandedOut = {MuId(ret.modified, 0, 0)}
    /\ heap[MuId(ret.modified, 0, 0)].frees = 0
    /\ heap[ImgId(ret.modified, 0, 0)].frees = 1
    /\ heap[SqId(ret.modified, 0, 0)].frees = 1

LevelState(chan) ==
    IF chan.img # NULL /\ chan.mu # NULL /\ chan.img_sq_blur # NULL THEN "READY"
    ELSE IF chan.img = NULL /\ chan.mu # NULL /\ chan.img_sq_blur # NULL
         THEN "PRODUCT_BLURRED"
    ELSE IF chan.img = NULL /\ chan.mu = NULL /\ chan.img_sq_blur = NULL
         THEN "CONSUMED"
    ELSE "OTHER"

Rank(state) ==
    CASE state = "READY" -> 0
      [] state = "PRODUCT_BLURRED" -> 1
      [] state = "CONSUMED" -> 2
      [] OTHER -> 9

Levels(i) ==
    {<<ch, n>> \in (0..(MAX_CHANS - 1)) \X (0..(MAX_SCALES - 1)) :
        ch < images[i].channels /\ n < Len(images[i].chan[ch + 1])}

\* C4, as stated: when dssim_compare has returned, every level of the
\* modified image it visited is CONSUMED.
C4_VisitedConsumedOnReturn ==
    \A m \in ImageIds :
        (Idle /\ images[m].state = "live") =>
            \A e \in images[m].visited :
                LevelState(images[m].chan[e.ch + 1][e.n + 1]) = "CONSUMED"

\* where each level of a modified image stands: READY until visited and if
\* its dimensions disagree, PRODUCT_BLURRED between the two steps of its
\* dssim_compare_channel, CONSUMED with the product buffer released after
C4_Terminal ==
    \A m \in ImageIds :
        images[m].state = "live" =>
            \A l \in Levels(m) :
                LET state == LevelState(images[m].chan[l[1] + 1][l[2] + 1])
                IN IF Visit(l[1], l[2], TRUE) \in images[m].visited
                   THEN IF cmp.pc = "ssim" /\ cmp.modified = m
                           /\ cmp.ch = l[1] /\ cmp.n = l[2]
                        THEN /\ state = "PRODUCT_BLURRED"
                             /\ heap[ImgId(m, l[1], l[2])].frees = 0
                        ELSE /\ state = "CONSUMED"
                             /\ heap[ImgId(m, l[1], l[2])].frees = 1
                   ELSE state = "READY"

\* a level never moves backwards and never skips a state
C4_Step ==
    \A m \in ImageIds :
        (images[m].state = "live" /\ images'[m].state = "live") =>
            \A l \in Levels(m) :
                LET before == Rank(LevelState(images[m].chan[l[1] + 1][l[2] + 1]))
                    after == Rank(LevelState(images'[m].chan[l[1] + 1][l[2] + 1]))
                IN after = before \/ after = before + 1

\* C4, amended: every level of the modified image that dssim_compare visits
\* and whose dimensions match the original's moves READY -> PRODUCT_BLURRED
\* -> CONSUMED, one state at a time and never backwards, and is CONSUMED
\* when dssim_compare returns; a visited level whose dimensions disagree
\* stays READY.
C4_StateMachine == []C4_Terminal /\ [][C4_Step]_vars

C4_Witness ==
    /\ Returned
    /\ Visit(0, 0, FALSE) \in images[ret.modified].visited
    /\ Visit(0, 1, TRUE) \in images[ret.modified].visited
    /\ LevelState(images[ret.modified].chan[1][1]) = "READY"
    /\ LevelState(images[ret.modified].chan[1][2]) = "CONSUMED"

\* C5: whenever dssim_compare is called with a map requested,
\* on return the output refers to a live plane of W x H elements that the
\* modified image no longer references.
C5_MapAlwaysWritten ==
    (Returned /\ ret.map) =>
        LET p == map_out[ret.modified]
        IN /\ p \in DOMAIN heap
           /\ heap[p].frees = 0
           /\ heap[p].len = images[ret.original].width * images[ret.original].height
           /\ \A l \in Levels(ret.modified) :
                  images[ret.modified].chan[l[1] + 1][l[2] + 1].mu # p

\* What dssim_compare does establish about the map: when it compares (luma,
\* scale 0) with matching dimensions, on return the output is the modified
\* image's former luma scale-0 mu plane: W x H elements holding the
\* per-pixel SSIM, live, referenced by no level of the modified image and
\* released by none of the destructors; no other (channel, scale) writes
\* the output.  When luma scale 0 is not compared (its dimensions disagree,
\* or no scale is visited) the output is left as the caller passed it.
MapWrittenByTopLevelOnly ==
    /\ \A m \in ImageIds :
           map_out[m] # UNSET =>
               /\ map_out[m] = MuId(m, 0, 0)
               /\ heap[map_out[m]].frees = 0
               /\ images[m].state = "live" =>
                      /\ Visit(0, 0, TRUE) \in images[m].visited
                      /\ heap[map_out[m]].len = images[m].width * images[m].height
                      /\ \A l \in Levels(m) :
                             images[m].chan[l[1] + 1][l[2] + 1].mu # map_out[m]
    /\ (Returned /\ ret.map) =>
           IF Visit(0, 0, TRUE) \in images[ret.modified].visited
           THEN /\ map_out[ret.modified] = MuId(ret.modified, 0, 0)
                /\ images[ret.modified].visited = {Visit(0, 0, TRUE)} =>
                       heap[map_out[ret.modified]].data
                           = FDiv(Num(1), FAdd(ret.value, Num(1)))
           ELSE map_out[ret.modified] = UNSET

\* a map requested, luma scale 0 of 4x4 against 4x5: nothing written
C5_Witness ==
    /\ Returned /\ ret.map
    /\ images[ret.original].width = 4 /\ images[ret.original].height = 4
    /\ images[ret.modified].width = 4 /\ images[ret.modified].height = 5
    /\ images[ret.modified].visited = {Visit(0, 0, FALSE)}
    /\ map_out[ret.modified] = UNSET

\* C6: every level of every channel has the dimensions floor(W / 2^s) x
\* floor(H / 2^s) of its top level, there are at most MAX_SCALES levels, and
\* no level has a zero width or height.
C6_PyramidShape ==
    \A i \in ImageIds :
        images[i].state = "live" =>
            \A l \in Levels(i) :
                LET top == images[i].chan[l[1] + 1][1]
                    chan == images[i].chan[l[1] + 1][l[2] + 1]
                IN /\ chan.width = top.width \div Pow2(l[2])
                   /\ chan.height = top.height \div Pow2(l[2])
                   /\ chan.width >= 1 /\ chan.height >= 1

\* a 1x1 image under the default four scales: levels 1x1, 0x0, 0x0, 0x0
C6_Witness ==
    /\ images["a"].state = "live"
    /\ images["a"].width = 1 /\ images["a"].height = 1
    /\ Len(images["a"].chan[1]) = 4
    /\ images["a"].chan[1][2].width = 0 /\ images["a"].chan[1][2].height = 0

\* C7: the construction of every image kept every access of its blurs
\* inside the plane and the scratch, and gave every 1D pass a scratch of at
\* least two rows.
C7_BlurInBounds ==
    \A i \in ImageIds :
        images[i].state = "live" => images[i].in_bounds /\ images[i].two_rows

\* a 1x1 image with a single level, built outside its plane
C7_Witness ==
    /\ images["a"].state = "live"
    /\ images["a"].width = 1 /\ images["a"].height = 1
    /\ Len(images["a"].chan[1]) = 1
    /\ ~images["a"].in_bounds
    /\ ~images["a"].two_rows

\* C8: the row callback is called once per luma row, in increasing y, with
\* the luma width and a buffer of at least that width per channel; with
\* chroma subsampling every sample of the half-size chroma planes is written
\* exactly once, from the 2x2 block of callback rows 2y, 2y+1 and columns
\* 2x, 2x+1.
C8_RowProtocol ==
    \A i \in ImageIds :
        images[i].state = "live" =>
            LET im == images[i]
            IN /\ Len(im.calls) = im.height
               /\ \A k \in 1..Len(im.calls) :
                      /\ im.calls[k].y = k - 1
                      /\ im.calls[k].width = im.width
                      /\ Len(im.calls[k].cap) = im.channels
                      /\ \A c \in 1..im.channels : im.calls[k].cap[c] >= im.width
               /\ \A c \in 2..im.channels :
                      LET cw == im.chan[c][1].width
                          chh == im.chan[c][1].height
                      IN IF im.subsampled
                         THEN /\ cw = im.width \div 2 /\ chh = im.height \div 2
                              /\ \A w \in im.writes[c] : w.off \in 0..(cw * chh - 1)
                              /\ \A off \in 0..(cw * chh - 1) :
                                     LET x == off % cw
                                         y == off \div cw
                                         ws == {w \in im.writes[c] : w.off = off}
                                     IN /\ Cardinality(ws) = 1
                                        /\ \A w \in ws :
                                               w.from = {<<2 * y, 2 * x>>,
                                                         <<2 * y, 2 * x + 1>>,
                                                         <<2 * y + 1, 2 * x>>,
                                                         <<2 * y + 1, 2 * x + 1>>}
                         ELSE /\ cw = im.width /\ chh = im.height
                              /\ im.writes[c] = {}

C8_Witness ==
    /\ images["a"].state = "live"
    /\ images["a"].channels = 3
    /\ images["a"].subsampled
    /\ images["a"].width = MaxDim /\ images["a"].height = MaxDim
    /\ Len(images["a"].calls) = MaxDim
    /\ Cardinality(images["a"].writes[2]) = (MaxDim \div 2) * (MaxDim \div 2)

\* C9: the stored num_scales is always in 1 .. MAX_SCALES.
C9_NumScalesRange ==
    attr.live => (1 <= attr.num_scales /\ attr.num_scales <= MAX_SCALES)

\* dssim_set_scales(attr, 0, NULL)
C9_Witness == attr.live /\ attr.num_scales = 0

SupportedColorTypes == {"DSSIM_GRAY", "DSSIM_RGB", "DSSIM_RGBA",
                        "DSSIM_RGBA_TO_GRAY", "DSSIM_LUMA", "DSSIM_LAB"}

Rejected(r) ==
    \/ r.op = "dssim_create_image_float_callback" /\ r.num_channels \notin {1, 3}
    \/ r.op = "dssim_create_image" /\ r.color_type \notin SupportedColorTypes

\* C10: a constructor call with a channel count not in {1, 3}, or with an
\* unsupported colour type, returns "no image" and leaves the images (so no
\* row callback ran, no image or channel exists), the heap and the attribute
\* bundle with its scratch as they were.
C10_Rejection ==
    [][Rejected(ret') =>
          /\ ret'.status = "NULL"
          /\ ret' # ret => (attr' = attr /\ heap' = heap /\ images' = images)]_vars

C10_Witness ==
    /\ Rejected(ret)
    /\ ret.status = "NULL"
    /\ ret.op = "dssim_create_image"
    /\ images["a"].state = "unbuilt"
    /\ attr.tmp = NULL

\* the number of scales of channel ch that a comparison of o and m visits
ScalesVisited(o, m, ch) ==
    MIN(attr.num_scales,
        MIN(Len(images[o].chan[ch + 1]), Len(images[m].chan[ch + 1])))

\* the (channel, scale) pairs a comparison of o and m visits, in lockstep
ExpectedVisits(o, m) ==
    {Visit(p[1], p[2], ~Mismatch(images[o].chan[p[1] + 1][p[2] + 1],
                                 images[m].chan[p[1] + 1][p[2] + 1]))
        : p \in {q \in (0..(MAX_CHANS - 1)) \X (0..(MAX_SCALES - 1)) :
                    /\ q[1] < MIN(images[o].channels, images[m].channels)
                    /\ q[2] < ScalesVisited(o, m, q[1])}}

\* the weight of (channel, scale): the colour weight off luma, times the
\* weight of the scale
WeightAt(ch, n) ==
    FMul(IF ch > 0 THEN attr.color_weight ELSE Num(1), attr.scale_weights[n + 1])

RECURSIVE SumOfWeights(_)
SumOfWeights(visits) ==
    IF visits = {} THEN Num(0)
    ELSE LET e == CHOOSE x \in visits : TRUE
         IN FAdd(WeightAt(e.ch, e.n), SumOfWeights(visits \ {e}))

\* (channel, scale) e comes before (ch, n) in the order of the two loops
Before(e, ch, n) == e.ch < ch \/ (e.ch = ch /\ e.n < n)

\* where dssim_compare stands: its pointers are on levels that exist on both
\* sides, it has visited exactly the expected pairs before them, and total
\* is the sum of the weights of the visits it has finished
C11_Position ==
    cmp.pc # "idle" =>
        LET o == cmp.original
            m == cmp.modified
            expected == ExpectedVisits(o, m)
            visited == images[m].visited
        IN IF cmp.pc = "return"
           THEN /\ visited = expected
                /\ cmp.total = SumOfWeights(expected)
           ELSE /\ cmp.ch < MIN(images[o].channels, images[m].channels)
                /\ cmp.n < attr.num_scales
                /\ cmp.n < Len(images[o].chan[cmp.ch + 1])
                /\ cmp.n < Len(images[m].chan[cmp.ch + 1])
                /\ visited = {x \in expected :
                                  \/ Before(x, cmp.ch, cmp.n)
                                  \/ cmp.pc = "ssim" /\ x.ch = cmp.ch /\ x.n = cmp.n}
                /\ cmp.total = SumOfWeights({x \in expected :
                                                Before(x, cmp.ch, cmp.n)})

\* the value returned divides by the weights of the visited pairs
C11_Return ==
    (cmp.pc = "return" /\ cmp'.pc = "idle") =>
        /\ ret'.op = "dssim_compare"
        /\ ret'.value = DSSIM(cmp.ssim_sum,
                              SumOfWeights(ExpectedVisits(cmp.original, cmp.modified)))

\* C11: for each channel below the smaller channel count dssim_compare visits
\* the scales 0 .. k-1, k the least of attr.num_scales at the time of the
\* comparison and of the two pyramids' depths, its pointers always on levels
\* that exist on both sides, and it divides by the sum of the weights of
\* exactly the visited (channel, scale) pairs, whatever dssim_set_scales
\* calls came between the constructions and the comparison.
C11_Lockstep == []C11_Position /\ [][C11_Return]_vars

\* the original two levels deep, the modified one, num_scales 2 again at the
\* comparison: scale 0 of every channel and nothing else
C11_Witness ==
    /\ cmp.pc = "return"
    /\ attr.num_scales = 2
    /\ images[cmp.original].channels = 3 /\ images[cmp.modified].channels = 3
    /\ Len(images[cmp.original].chan[1]) = 2
    /\ Len(images[cmp.modified].chan[1]) = 1
    /\ {[ch |-> e.ch, n |-> e.n] : e \in images[cmp.modified].visited}
           = {[ch |-> ch, n |-> 0] : ch \in 0..2}
    /\ cmp.total = FAdd(WeightAt(0, 0), FAdd(WeightAt(1, 0), WeightAt(2, 0)))

\* the images of the comparison running before or after the step
Comparing(o, m) ==
    \/ cmp.pc # "idle" /\ cmp.original = o /\ cmp.modified = m
    \/ cmp'.pc # "idle" /\ cmp'.original = o /\ cmp'.modified = m

\* every buffer allocated for image i
BuffersOf(i) == {id \in DOMAIN heap : id[2] = i}

\* level l of m is one a comparison with o leaves alone: it is not among the
\* visits, or its width or height differs from that of the original's level
KeptLevel(o, m, l, visits) ==
    \/ \A e \in visits : ~(e.ch = l[1] /\ e.n = l[2])
    \/ /\ l[1] < images[o].channels
       /\ l[2] < Len(images[o].chan[l[1] + 1])
       /\ LET a == images[o].chan[l[1] + 1][l[2] + 1]
              b == images[m].chan[l[1] + 1][l[2] + 1]
          IN a.width # b.width \/ a.height # b.height

\* no step of a comparison changes the original or any of its buffers
C12_OriginalFrame ==
    \A o, m \in ImageIds :
        Comparing(o, m) =>
            /\ images'[o] = images[o]
            /\ \A id \in BuffersOf(o) : id \in DOMAIN heap' /\ heap'[id] = heap[id]

\* no step of a comparison changes a level of the modified image that is
\* not visited or whose dimensions mismatch, or any buffer of such a level
C12_ModifiedFrame ==
    \A o, m \in ImageIds :
        Comparing(o, m) =>
            \A l \in Levels(m) :
                KeptLevel(o, m, l, images'[m].visited) =>
                    /\ images'[m].chan[l[1] + 1][l[2] + 1]
                           = images[m].chan[l[1] + 1][l[2] + 1]
                    /\ \A id \in {ImgId(m, l[1], l[2]), MuId(m, l[1], l[2]),
                                  SqId(m, l[1], l[2])} :
                           heap'[id] = heap[id]

\* an image that was never the modified side of a comparison has every
\* level READY and none of its planes released; and once a comparison has
\* returned, so have the levels of the modified image it left alone
C12_Kept ==
    /\ \A i \in ImageIds :
           (images[i].state = "live" /\ ~images[i].consumed) =>
               \A l \in Levels(i) :
                   /\ LevelState(images[i].chan[l[1] + 1][l[2] + 1]) = "READY"
                   /\ \A id \in {ImgId(i, l[1], l[2]), MuId(i, l[1], l[2]),
                                 SqId(i, l[1], l[2])} :
                          heap[id].frees = 0
    /\ Returned =>
           \A l \in Levels(ret.modified) :
               KeptLevel(ret.original, ret.modified, l,
                         images[ret.modified].visited) =>
                   /\ LevelState(images[ret.modified].chan[l[1] + 1][l[2] + 1])
                          = "READY"
                   /\ \A id \in {ImgId(ret.modified, l[1], l[2]),
                                 MuId(ret.modified, l[1], l[2]),
                                 SqId(ret.modified, l[1], l[2])} :
                          heap[id].frees = 0

\* C12: dssim_compare leaves the original image as it was (its channel
\* count, and the width, height, img, mu, img_sq_blur and next_half of every
\* level of every channel, and the contents of its buffers), so one original
\* serves any number of comparisons in sequence; the levels of the modified
\* image that are not visited or whose dimensions mismatch keep all their
\* buffers.
C12_Frame == []C12_Kept /\ [][C12_OriginalFrame /\ C12_ModifiedFrame]_vars

\* image "a" compared with "b", then with "c" built from the same samples:
\* the second comparison finds the original intact and returns 0, and the
\* level of "b" whose dimensions mismatched still has its buffers
C12_Witness ==
    /\ Returned
    /\ ret.original = "a" /\ ret.modified = "c"
    /\ images["b"].state = "live" /\ images["b"].consumed
    /\ images["b"].visited = {Visit(0, 0, FALSE), Visit(0, 1, TRUE)}
    /\ LevelState(images["b"].chan[1][1]) = "READY"
    /\ SameSource("a", "c")
    /\ images["c"].visited = {Visit(0, 0, TRUE), Visit(0, 1, TRUE)}
    /\ \A l \in Levels("a") : LevelState(images["a"].chan[l[1] + 1][l[2] + 1]) = "READY"
    /\ ret.value = Num(0)
====
